---- MODULE Spec2Model ----
(***************************************************************************)
(* A model of the pdf-questions pipeline: download -> extract -> summarize *)
(* -> generate -> parse.                                                   *)
(*                                                                         *)
(* A JavaScript string is modelled as a sequence of characters, each       *)
(* character a one-element TLA+ string.  The character U+2022 (the round   *)
(* bullet) cannot be written in a TLA+ string and is the token BULLET.     *)
(***************************************************************************)
EXTENDS Integers, Sequences, FiniteSets, TLC

----------------------------------------------------------------------------
(* Characters and the JavaScript string primitives the code uses.          *)

NL == "\n"
TAB == "\t"
BULLET == "U+2022"

\* \d of a JavaScript regular expression
IsDigit(c) == c \in {"0", "1", "2", "3", "4", "5", "6", "7", "8", "9"}

\* \s of a regular expression, and the characters String.prototype.trim removes
IsSpace(c) == c \in {" ", NL, TAB}

\* [\.\)] : the punctuation that closes a numbered-list marker
IsMarkerPunct(c) == c \in {".", ")"}

\* [\-\*•] : the bullet characters
IsBullet(c) == c \in {"-", "*", BULLET}

Min(a, b) == IF a < b THEN a ELSE b
Max(a, b) == IF a > b THEN a ELSE b

\* The first index >= i of s whose character is not a digit (not whitespace),
\* or Len(s) + 1: the end of the run of digits (of whitespace) that starts at i.
DigitRunEnd(s, i) ==
  CHOOSE j \in i..(Len(s) + 1) :
    /\ (j = Len(s) + 1 \/ ~IsDigit(s[j]))
    /\ \A k \in i..(j - 1) : IsDigit(s[k])

SpaceRunEnd(s, i) ==
  CHOOSE j \in i..(Len(s) + 1) :
    /\ (j = Len(s) + 1 \/ ~IsSpace(s[j]))
    /\ \A k \in i..(j - 1) : IsSpace(s[k])

\* The last index <= i of s whose character is not whitespace, or 0
SpaceRunStart(s, i) ==
  CHOOSE j \in 0..i :
    /\ (j = 0 \/ ~IsSpace(s[j]))
    /\ \A k \in (j + 1)..i : IsSpace(s[k])

\* String.prototype.trim
trim(s) ==
  LET from == SpaceRunEnd(s, 1)
      to == SpaceRunStart(s, Len(s))
  IN IF from > to THEN <<>> ELSE SubSeq(s, from, to)

\* String.prototype.includes, for a one-character needle
includes(s, c) == \E i \in 1..Len(s) : s[i] = c

\* String.prototype.split, for a one-character separator: the pieces between
\* the separators, empty pieces included (''.split(c) is ['']).
RECURSIVE split(_, _)
split(s, sep) ==
  IF ~includes(s, sep) THEN <<s>>
  ELSE LET i == CHOOSE i \in 1..Len(s) :
                  s[i] = sep /\ \A j \in 1..(i - 1) : s[j] # sep
       IN <<SubSeq(s, 1, i - 1)>> \o split(SubSeq(s, i + 1, Len(s)), sep)

\* String.prototype.substring(0, n)
substring(s, n) == SubSeq(s, 1, Min(Max(n, 0), Len(s)))

\* A faulty slice, one element too long: C1 must tell it from slice
slice_offByOne(a, end) ==
  LET e == IF end < 0 THEN Max(Len(a) + end, 0) ELSE Min(end + 1, Len(a))
  IN SubSeq(a, 1, e)

\* Array.prototype.slice(0, end): a negative end counts from the end
slice(a, end) ==
  LET e == IF end < 0 THEN Max(Len(a) + end, 0) ELSE Min(end, Len(a))
  IN SubSeq(a, 1, e)

\* Array.prototype.flat of an array of arrays
RECURSIVE flat(_)
flat(ss) == IF ss = <<>> THEN <<>> ELSE Head(ss) \o flat(Tail(ss))

\* The end (exclusive) of a match of /\d+[\.\)]\s*/ that starts at index i of
\* s, or 0 when the expression does not match there.  \d+ is greedy and a
\* shorter run of digits is followed by a digit, so only the whole run can
\* be followed by the punctuation.
MarkerEnd(s, i) ==
  IF i > Len(s) \/ ~IsDigit(s[i]) THEN 0
  ELSE LET j == DigitRunEnd(s, i)
       IN IF j <= Len(s) /\ IsMarkerPunct(s[j]) THEN SpaceRunEnd(s, j + 1)
          ELSE 0

\* The end (exclusive) of a match of /^\d+[\.\)]/ (no trailing whitespace)
MarkerHeadEnd(s) ==
  IF s = <<>> \/ ~IsDigit(s[1]) THEN 0
  ELSE LET j == DigitRunEnd(s, 1)
       IN IF j <= Len(s) /\ IsMarkerPunct(s[j]) THEN j + 1 ELSE 0

\* The index of the first match of /\d+[\.\)]\s*/ at or after index i, or 0
NextMarker(s, i) ==
  IF \E m \in i..Len(s) : MarkerEnd(s, m) > 0
  THEN CHOOSE m \in i..Len(s) :
         MarkerEnd(s, m) > 0 /\ \A k \in i..(m - 1) : MarkerEnd(s, k) = 0
  ELSE 0

\* text.replace(/(\d+[\.\)]\s*)/g, '\n$1') from index i on: every match, left
\* to right and not overlapping, gets a line break in front of it.
RECURSIVE normaliseFrom(_, _)
normaliseFrom(s, i) ==
  LET m == NextMarker(s, i)
  IN IF m = 0 THEN SubSeq(s, i, Len(s))
     ELSE LET e == MarkerEnd(s, m)
          IN SubSeq(s, i, m - 1) \o <<NL>> \o SubSeq(s, m, e - 1)
               \o normaliseFrom(s, e)

normalise(text) == normaliseFrom(text, 1)

\* A faulty stripNumbering that knows "1." but not "1)": C10 must tell it
\* from stripNumbering
stripNumbering_dotOnly(s) ==
  LET e == MarkerEnd(s, 1)
  IN IF e > 0 /\ s[DigitRunEnd(s, 1)] = "." THEN SubSeq(s, e, Len(s)) ELSE s

\* s.replace(/^\d+[\.\)]\s*/, '')
stripNumbering(s) ==
  LET e == MarkerEnd(s, 1) IN IF e > 0 THEN SubSeq(s, e, Len(s)) ELSE s

\* s.replace(/^[\-\*•]\s*/, '')
stripBullet(s) ==
  IF s # <<>> /\ IsBullet(s[1]) THEN SubSeq(s, SpaceRunEnd(s, 2), Len(s))
  ELSE s

\* The map callback of both parsers: numbering, then bullet, then trim
cleanSegment(segment) == trim(stripBullet(stripNumbering(segment)))

\* q.length > 5
MinQuestionLength == 5

----------------------------------------------------------------------------
(* parseQuestionsFromText, the copy in src/unnamed/part_002.               *)

\* line.split('?').map(trim).filter(non-empty).map(part => part + '?')
lineSegments(line) ==
  LET parts == split(line, "?")
      trimmed == [i \in 1..Len(parts) |-> trim(parts[i])]
      NonEmpty(p) == Len(p) > 0
      kept == SelectSeq(trimmed, NonEmpty)
  IN [i \in 1..Len(kept) |-> kept[i] \o <<"?">>]

\* normalised.split('\n').flatMap(...)
segmentsOf(text) ==
  LET lines == split(normalise(text), NL)
  IN flat([i \in 1..Len(lines) |-> lineSegments(lines[i])])

\* The cleaned segments that pass the filter, before .slice
survivors_part_002(text) ==
  LET segs == segmentsOf(text)
      cleaned == [i \in 1..Len(segs) |-> cleanSegment(segs[i])]
      Keep(q) == Len(q) > MinQuestionLength /\ includes(q, "?")
  IN SelectSeq(cleaned, Keep)

parseQuestionsFromText_part_002(text, maxQuestions) ==
  slice(survivors_part_002(text), maxQuestions)

----------------------------------------------------------------------------
(* parseQuestionsFromText, the copy in                                     *)
(* src/mastra/tools/generate-questions-from-text-tool.ts, the module the   *)
(* workflow imports.                                                       *)

\* text.split('\n').map(trim).filter(non-empty).filter(has '?' or is numbered)
linesOf(text) ==
  LET raw == split(text, NL)
      trimmed == [i \in 1..Len(raw) |-> trim(raw[i])]
      Keep(line) == /\ Len(line) > 0
                    /\ (includes(line, "?") \/ MarkerHeadEnd(line) > 0)
  IN SelectSeq(trimmed, Keep)

survivors_tool(text) ==
  LET lines == linesOf(text)
      cleaned == [i \in 1..Len(lines) |-> cleanSegment(lines[i])]
      Keep(q) == Len(q) > MinQuestionLength
  IN SelectSeq(cleaned, Keep)

parseQuestionsFromText_tool(text, maxQuestions) ==
  slice(survivors_tool(text), maxQuestions)

\* The two copies, by the module that is loaded
Copies == {"tool", "part_002"}

survivors(copy, text) ==
  IF copy = "tool" THEN survivors_tool(text) ELSE survivors_part_002(text)

\* The list without the later occurrences of an element
RECURSIVE withoutRepeats(_)
withoutRepeats(list) ==
  IF list = <<>> THEN <<>>
  ELSE LET front == withoutRepeats(SubSeq(list, 1, Len(list) - 1))
           last == list[Len(list)]
       IN IF \E i \in 1..Len(front) : front[i] = last THEN front
          ELSE Append(front, last)

\* A faulty parser that drops the repeated questions: C11 must tell it from
\* parseQuestionsFromText
parseQuestionsFromText_deduplicated(copy, text, maxQuestions) ==
  slice(withoutRepeats(survivors(copy, text)), maxQuestions)

parseQuestionsFromText(copy, text, maxQuestions) ==
  IF copy = "tool" THEN parseQuestionsFromText_tool(text, maxQuestions)
  ELSE parseQuestionsFromText_part_002(text, maxQuestions)

----------------------------------------------------------------------------
(* The raw completions the parser is applied to.  A completion is a list   *)
(* of items in one list style, as a completion service writes them: each   *)
(* item is the style's marker, a body and a separator.                     *)

MaxItems == 3
MaxK == 2
\* const { extractedText, maxQuestions = 10 } = context
DefaultMaxQuestions == 10

RECURSIVE ToDigits(_)
ToDigits(n) ==
  LET d == <<"0", "1", "2", "3", "4", "5", "6", "7", "8", "9">>
  IN IF n < 10 THEN <<d[n + 1]>> ELSE ToDigits(n \div 10) \o <<d[(n % 10) + 1]>>

\* "What is X?"
WhatIsX ==
  <<"W", "h", "a", "t", " ", "i", "s", " ", "X", "?">>

\* "Why does this matter?"
WhyMatter ==
  <<"W", "h", "y", " ", "d", "o", "e", "s", " ", "t", "h", "i", "s", " ",
    "m", "a", "t", "t", "e", "r", "?">>

\* "Ok?"
OkShort ==
  <<"O", "k", "?">>

\* "This document has no question marks at all."
NoMarks ==
  <<"T", "h", "i", "s", " ", "d", "o", "c", "u", "m", "e", "n", "t", " ",
    "h", "a", "s", " ", "n", "o", " ", "q", "u", "e", "s", "t", "i", "o",
    "n", " ", "m", "a", "r", "k", "s", " ", "a", "t", " ", "a", "l", "l",
    ".">>

\* "v2.5? So what?": a marker and a '?' inside the body
Version ==
  <<"v", "2", ".", "5", "?", " ", "S", "o", " ", "w", "h", "a", "t", "?">>

Bodies == {WhatIsX, WhyMatter, OkShort, NoMarks, Version}

\* The bodies that are one plain question: a single '?', at the end, no
\* marker inside, more than MinQuestionLength characters.
PlainQuestions == {WhatIsX, WhyMatter}

\* "1. " "2. " ..., "1." ..., "1) " ..., "1)" ..., and "9) " "10) " ...
NumberedStyles ==
  [kind : {"numbered"}, mark : {".", ")"}, ws : {<<>>, <<" ">>}, start : {1}]
    \cup {[kind |-> "numbered", mark |-> ")", ws |-> <<" ">>, start |-> 9]}

BulletStyles ==
  [kind : {"bullet"}, mark : {"-"}, ws : {<<>>, <<" ">>}, start : {0}]
    \cup {[kind |-> "bullet", mark |-> "*", ws |-> <<" ">>, start |-> 0],
          [kind |-> "bullet", mark |-> BULLET, ws |-> <<>>, start |-> 0]}

NoStyle == [kind |-> "none", mark |-> "", ws |-> <<>>, start |-> 0]

Styles == {NoStyle} \cup NumberedStyles \cup BulletStyles

Seps == {<<" ">>, <<NL>>}

\* The marker of the i-th item of a list in the given style
markerOf(style, i) ==
  CASE style.kind = "numbered" ->
         ToDigits(style.start + i - 1) \o <<style.mark>> \o style.ws
    [] style.kind = "bullet" -> <<style.mark>> \o style.ws
    [] OTHER -> <<>>

\* The text of a list: marker, body, separator per item (none after the last)
render(style, sep, bodies) ==
  flat([i \in 1..Len(bodies) |->
          markerOf(style, i) \o bodies[i] \o (IF i < Len(bodies) THEN sep ELSE <<>>)])

BodyLists == UNION {[1..n -> Bodies] : n \in 0..MaxItems}

MaxQuestionsValues == (-1..MaxK) \cup {DefaultMaxQuestions}

----------------------------------------------------------------------------
(* The state of one run.                                                   *)

VARIABLES
  entry,            \* how the run was started: "none", "workflow" (the
                    \* workflow's two steps) or "direct" (the tool called alone)
  copy,             \* the module whose generateQuestionsFromTextTool runs
  pc,               \* the await the run is suspended at
  step1,            \* download-and-summarize-pdf: notStarted/running/success/failed
  step2,            \* generate-questions-from-summary: notStarted/running/success
  pdfUrl,           \* context.pdfUrl
  fileSize,         \* pdfBuffer.length
  parserCalls,      \* calls of pdfParser.parseBuffer
  extraction,       \* <<>> or <<[extractedText, pagesCount]>>
  summary,          \* the summary step 1 returned
  error,            \* the message of the error step 1 threw (<<>>: none)
  extractedText,    \* context.extractedText of the tool
  maxQuestions,     \* the tool's maxQuestions, defaulted
  warned,           \* the two console.warn lines about the length were written
  requests,         \* the requests sent to the question agent, in order
  summaryRequests,  \* the requests sent to the summarization agent
  generatedContent, \* the tool's buffer of streamed text
  chunks,           \* the number of fragments the stream delivered
  parsed,           \* the arguments parseQuestionsFromText was called with
  toolResult,       \* <<>> or <<the value execute returned>>
  stepResult,       \* <<>> or <<the value step 2 returned>>
  stages,           \* the stages begun, in order
  caught,           \* the message the tool's catch block logged (<<>>: none)
  toolThrew,        \* execute ended by throwing
  fetched,          \* <<>> or <<how the fetch of pdfUrl settled>>
  summaryResponse,  \* <<>> or <<the text of the summarization response>>
  fragments,        \* the fragments the stream delivered, in arrival order
  pInput,           \* parser harness: how the text was put together
  pText,            \* parser harness: the raw completion
  pMax,             \* parser harness: maxQuestions
  pCopy,            \* parser harness: the copy applied ("none" before the call)
  pOut              \* parser harness: the list returned

pipelineVars ==
  <<entry, copy, pc, step1, step2, pdfUrl, fileSize, parserCalls, extraction,
    summary, error, extractedText, maxQuestions, warned, requests,
    summaryRequests, generatedContent, chunks, parsed, toolResult, stepResult,
    stages, caught, toolThrew, fetched, summaryResponse, fragments>>

parserVars == <<pInput, pText, pMax, pCopy, pOut>>

vars == <<pipelineVars, parserVars>>

----------------------------------------------------------------------------
(* The parser applied to a raw completion (a pure function).               *)

ParserInit ==
  /\ pInput \in [style : Styles, sep : Seps, bodies : BodyLists]
  /\ pText = render(pInput.style, pInput.sep, pInput.bodies)
  /\ pMax \in MaxQuestionsValues
  /\ pCopy = "none"
  /\ pOut = <<>>

ParserIdle ==
  /\ pInput = [style |-> NoStyle, sep |-> <<NL>>, bodies |-> <<>>]
  /\ pText = <<>>
  /\ pMax = DefaultMaxQuestions
  /\ pCopy = "none"
  /\ pOut = <<>>

\* One call parseQuestionsFromText(pText, pMax) of the copy c
ParseCall(c) ==
  /\ pCopy = "none"
  /\ pCopy' = c
  /\ pOut' = parseQuestionsFromText(c, pText, pMax)
  /\ UNCHANGED <<pInput, pText, pMax, pipelineVars>>

PipelineIdle ==
  /\ entry = "none"
  /\ copy = "tool"
  /\ pc = "idle"
  /\ step1 = "notStarted"
  /\ step2 = "notStarted"
  /\ pdfUrl = "https://example.com/document.pdf"
  /\ fileSize = 0
  /\ parserCalls = 0
  /\ extraction = <<>>
  /\ summary = <<>>
  /\ error = <<>>
  /\ extractedText = <<>>
  /\ maxQuestions = DefaultMaxQuestions
  /\ warned = FALSE
  /\ requests = <<>>
  /\ summaryRequests = <<>>
  /\ generatedContent = <<>>
  /\ chunks = 0
  /\ parsed = <<>>
  /\ toolResult = <<>>
  /\ stepResult = <<>>
  /\ stages = <<>>
  /\ caught = <<>>
  /\ toolThrew = FALSE
  /\ fetched = <<>>
  /\ summaryResponse = <<>>
  /\ fragments = <<>>

----------------------------------------------------------------------------
(* The text extractor (extractTextFromPDF) and the values the outside      *)
(* world hands to step 1.                                                  *)

\* The printable ASCII characters, U+0020 to U+007E (the double quote and the
\* backtick, which a TLA+ string cannot hold, by their names)
Ascii ==
  <<" ", "!", "quote", "#", "$", "%", "&", "'", "(", ")", "*", "+", ",", "-",
    ".", "/", "0", "1", "2", "3", "4", "5", "6", "7", "8", "9", ":", ";",
    "<", "=", ">", "?", "@", "A", "B", "C", "D", "E", "F", "G", "H", "I",
    "J", "K", "L", "M", "N", "O", "P", "Q", "R", "S", "T", "U", "V", "W",
    "X", "Y", "Z", "[", "\\", "]", "^", "_", "backtick", "a", "b", "c", "d", "e",
    "f", "g", "h", "i", "j", "k", "l", "m", "n", "o", "p", "q", "r", "s",
    "t", "u", "v", "w", "x", "y", "z", "{", "|", "}", "~">>

HexDigits ==
  <<"0", "1", "2", "3", "4", "5", "6", "7", "8", "9", "A", "B", "C", "D", "E", "F">>

LowerHexDigits ==
  <<"0", "1", "2", "3", "4", "5", "6", "7", "8", "9", "a", "b", "c", "d", "e", "f">>

IsHex(c) == \E i \in 1..16 : HexDigits[i] = c \/ LowerHexDigits[i] = c

HexValue(c) ==
  (CHOOSE i \in 1..16 : HexDigits[i] = c \/ LowerHexDigits[i] = c) - 1

\* The character of a %XX escape, or "" when a lone byte XX is no character
\* (a byte of 0x80 or more starts a UTF-8 sequence; alone it is malformed).
EscapedChar(hi, lo) ==
  LET code == 16 * HexValue(hi) + HexValue(lo)
  IN IF code >= 32 /\ code <= 126 THEN Ascii[code - 31]
     ELSE IF code = 10 THEN NL
     ELSE IF code = 9 THEN TAB
     ELSE IF code < 32 \/ code = 127 THEN "control"
     ELSE ""

\* decodeURIComponent: [ok |-> FALSE] stands for the URIError it throws
RECURSIVE decodeURIComponent(_)
decodeURIComponent(t) ==
  IF t = <<>> THEN [ok |-> TRUE, text |-> <<>>]
  ELSE IF Head(t) # "%" THEN
    LET rest == decodeURIComponent(Tail(t))
    IN [ok |-> rest.ok, text |-> <<Head(t)>> \o rest.text]
  ELSE IF Len(t) < 3 \/ ~IsHex(t[2]) \/ ~IsHex(t[3]) \/ EscapedChar(t[2], t[3]) = ""
    THEN [ok |-> FALSE, text |-> <<>>]
  ELSE
    LET rest == decodeURIComponent(SubSeq(t, 4, Len(t)))
    IN [ok |-> rest.ok, text |-> <<EscapedChar(t[2], t[3])>> \o rest.text]

\* The text runs of a text item, each decoded and followed by a space
RECURSIVE runsText(_)
runsText(runs) ==
  IF runs = <<>> THEN [ok |-> TRUE, text |-> <<>>]
  ELSE LET rest == runsText(Tail(runs))
           t == Head(runs).T
           d == decodeURIComponent(t)
       IN IF t = <<>> THEN rest
          ELSE [ok |-> d.ok /\ rest.ok, text |-> d.text \o <<" ">> \o rest.text]

RECURSIVE textsText(_)
textsText(items) ==
  IF items = <<>> THEN [ok |-> TRUE, text |-> <<>>]
  ELSE LET rest == textsText(Tail(items))
           here == IF Head(items).hasR THEN runsText(Head(items).R)
                   ELSE [ok |-> TRUE, text |-> <<>>]
       IN [ok |-> here.ok /\ rest.ok, text |-> here.text \o rest.text]

\* The pages, each followed by the page break '\n\n'
RECURSIVE pagesText(_)
pagesText(pages) ==
  IF pages = <<>> THEN [ok |-> TRUE, text |-> <<>>]
  ELSE LET rest == pagesText(Tail(pages))
           here == IF Head(pages).hasTexts THEN textsText(Head(pages).Texts)
                   ELSE [ok |-> TRUE, text |-> <<>>]
       IN [ok |-> here.ok /\ rest.ok, text |-> here.text \o <<NL, NL>> \o rest.text]

\* The error messages, as the pieces the code concatenates
EmptyBufferMessage == <<"Invalid PDF file: empty buffer">>
NoTextMessage == <<"No text could be extracted from the PDF">>
NoSummaryAgentMessage == <<"PDF summarization agent not found">>
UnknownError == <<"Unknown error">>

\* error instanceof Error ? error.message : 'Unknown error'
messageOf(reason) == IF reason.isError THEN reason.message ELSE UnknownError

\* The pdfParser_dataReady handler: the promise's outcome for pdfData
dataReady(pdfData) ==
  LET has == ~pdfData.isNull /\ pdfData.hasPages
      body == IF has THEN pagesText(pdfData.Pages) ELSE [ok |-> TRUE, text |-> <<>>]
      text == trim(body.text)
  IN IF ~body.ok
       THEN [resolved |-> FALSE, extractedText |-> <<>>, pagesCount |-> 0,
             message |-> <<"Text extraction failed: ", "URI malformed">>]
     ELSE IF text = <<>>
       THEN [resolved |-> FALSE, extractedText |-> <<>>, pagesCount |-> 0,
             message |-> NoTextMessage]
     ELSE [resolved |-> TRUE, extractedText |-> text,
           pagesCount |-> Len(pdfData.Pages), message |-> <<>>]

\* The pdfParser_dataError handler: the message the promise rejects with
dataError(err) ==
  <<"PDF parsing failed: ">> \o
    (IF err.parserError # <<>> THEN err.parserError
     ELSE IF err.message # <<>> THEN err.message
     ELSE UnknownError)

Run(t) == [T |-> t]
Item(runs) == [hasR |-> TRUE, R |-> runs]
NoRuns == [hasR |-> FALSE, R |-> <<>>]
Page(items) == [hasTexts |-> TRUE, Texts |-> items]
NoTexts == [hasTexts |-> FALSE, Texts |-> <<>>]
Document(pages) == [isNull |-> FALSE, hasPages |-> TRUE, Pages |-> pages]

\* What the parser may hand to the dataReady handler
PdfDatas ==
  { [isNull |-> TRUE, hasPages |-> FALSE, Pages |-> <<>>],
    [isNull |-> FALSE, hasPages |-> FALSE, Pages |-> <<>>],
    Document(<<NoTexts>>),
    Document(<<Page(<<Item(<<Run(<<"H", "i", "%", "2", "0", "a", "l", "l">>), Run(<<>>)>>),
                      NoRuns>>)>>),
    Document(<<Page(<<Item(<<Run(<<"A">>)>>)>>), NoTexts,
               Page(<<Item(<<Run(<<"Q", "%", "3", "F">>)>>)>>)>>),
    Document(<<Page(<<Item(<<Run(<<"5", "0", "%">>)>>)>>)>>) }

ParserErrors ==
  { [parserError |-> <<"Invalid XRef stream header">>, message |-> <<>>],
    [parserError |-> <<>>, message |-> <<"unexpected end of file">>],
    [parserError |-> <<>>, message |-> <<>>] }

\* What fetch may resolve with
Responses ==
  { [ok |-> TRUE, status |-> "200", statusText |-> "OK"],
    [ok |-> FALSE, status |-> "404", statusText |-> "Not Found"] }

\* What a promise of the outside world may reject with
Rejections ==
  { [isError |-> TRUE, message |-> <<"fetch failed">>],
    [isError |-> FALSE, message |-> <<>>] }

\* The lengths of the bodies the download may deliver
BodyLengths == {0, 2048}

----------------------------------------------------------------------------
(* The texts of the summarization service and of the completion stream.    *)

\* const MAX_TEXT_LENGTH = 4000
MAX_TEXT_LENGTH == 4000

\* generatedContent.trim().length > 20
MinContentLength == 20

\* How far beyond MAX_TEXT_LENGTH the longest text reaches
Overshoot == 1
MaxChunks == 2

\* 'Summary could not be generated'
SummaryPlaceholder ==
  <<"S", "u", "m", "m", "a", "r", "y", " ", "c", "o", "u", "l", "d", " ",
    "n", "o", "t", " ", "b", "e", " ", "g", "e", "n", "e", "r", "a", "t",
    "e", "d">>

\* A text of n characters: words of seven letters
WordsText(n) == [i \in 1..n |-> IF i % 8 = 0 THEN " " ELSE Ascii[66 + (i % 8)]]

\* MAX_TEXT_LENGTH spaces, then one letter
PaddedText == [i \in 1..(MAX_TEXT_LENGTH + 1) |-> IF i <= MAX_TEXT_LENGTH THEN " " ELSE "x"]

\* The texts a summary (or the tool's extractedText) may be
SummaryTexts ==
  { <<>>, <<" ", NL>>, NoMarks, PaddedText }
    \cup { WordsText(MAX_TEXT_LENGTH + d) : d \in {-1, 0, Overshoot} }

\* "1. What is X? 2. Why does this matter?"
TwoOnOneLine ==
  <<"1", ".", " ", "W", "h", "a", "t", " ", "i", "s", " ", "X", "?", " ",
    "2", ".", " ", "W", "h", "y", " ", "d", "o", "e", "s", " ", "t", "h",
    "i", "s", " ", "m", "a", "t", "t", "e", "r", "?">>

\* "Ok? No? So? Ok? No? So?"
ShortOnes ==
  <<"O", "k", "?", " ", "N", "o", "?", " ", "S", "o", "?", " ", "O", "k",
    "?", " ", "N", "o", "?", " ", "S", "o", "?">>

\* A completion of MinContentLength characters between white space
ExactlyTwenty ==
  <<" ", "I", "s", " ", "i", "t", " ", "r", "e", "a", "l", "l", "y", " ",
    "t", "w", "e", "n", "t", "y", "?", NL>>

\* The fragments of the text stream; an undefined fragment counts as ''
Fragments ==
  { [defined |-> FALSE, text |-> <<>>] }
    \cup [defined : {TRUE},
          text : {TwoOnOneLine, ShortOnes, NoMarks, <<NL>> \o OkShort,
                  ExactlyTwenty}]

\* chunk || ''
orEmpty(chunk) == IF chunk.defined THEN chunk.text ELSE <<>>

\* The value execute returns on every path but the parse
FailureResult == [questions |-> <<>>, questionCount |-> 0, success |-> FALSE]

\* Step 2's return value for a tool result
stepValue(result) == [questions |-> result.questions, success |-> result.success]

----------------------------------------------------------------------------
(* Step 1, download-and-summarize-pdf: pdfFetcherTool.execute.             *)

PipelineInit == PipelineIdle

\* A different catch block, whose message holds the URL that was asked for:
\* C13 must tell it from thrown
thrown_withUrl(errorMessage) ==
  <<"Failed to process PDF from URL: ", pdfUrl, ": ">> \o errorMessage

\* throw new Error(`Failed to process PDF from URL: ${errorMessage}`)
thrown(errorMessage) == <<"Failed to process PDF from URL: ">> \o errorMessage

\* The workflow starts: step 1 calls pdfFetcherTool.execute, which calls fetch
WorkflowStart ==
  /\ entry = "none"
  /\ entry' = "workflow"
  /\ copy' = "tool"
  /\ step1' = "running"
  /\ pc' = "fetch"
  /\ stages' = Append(stages, "download")
  /\ UNCHANGED <<step2, pdfUrl, fileSize, parserCalls, extraction, summary,
                 error, extractedText, maxQuestions, warned, requests,
                 summaryRequests, generatedContent, chunks, parsed, toolResult,
                 stepResult, caught, toolThrew,
                 fetched, summaryResponse,
                 fragments, parserVars>>

\* A faulty catch block that logs the error and lets step 1 succeed: C9 must
\* tell it from Step1Throws
Step1Throws_swallows(errorMessage) ==
  /\ step1' = "success"
  /\ pc' = "step2"
  /\ error' = thrown(errorMessage)

\* A faulty catch that starts the download again: C20 must tell it from
\* Step1Throws
Step1Throws_retries(errorMessage) ==
  /\ step1' = "running"
  /\ pc' = "fetch"
  /\ error' = error

\* Step 1 fails with the error execute's catch block throws
Step1Throws(errorMessage) ==
  /\ step1' = "failed"
  /\ pc' = "done"
  /\ error' = thrown(errorMessage)

\* fetch rejects
FetchReject(reason) ==
  /\ pc = "fetch"
  /\ Step1Throws(messageOf(reason))
  /\ fetched' = <<[resolved |-> FALSE, ok |-> FALSE, status |-> "",
                  statusText |-> "", reason |-> <<reason>>]>>
  /\ UNCHANGED <<entry, copy, step2, pdfUrl, fileSize, parserCalls, extraction,
                 summary, extractedText, maxQuestions, warned, requests,
                 summaryRequests, generatedContent, chunks, parsed, toolResult,
                 stepResult, stages, caught, toolThrew,
                 summaryResponse, fragments, parserVars>>

\* fetch resolves: a response that is not ok is thrown, else the body is read
FetchResolve(response) ==
  /\ pc = "fetch"
  /\ IF ~response.ok
       THEN Step1Throws(<<"Failed to download PDF: ", response.status, " ",
                          response.statusText>>)
       ELSE pc' = "arrayBuffer" /\ UNCHANGED <<step1, error>>
  /\ fetched' = <<[resolved |-> TRUE, ok |-> response.ok,
                  status |-> response.status,
                  statusText |-> response.statusText, reason |-> <<>>]>>
  /\ UNCHANGED <<entry, copy, step2, pdfUrl, fileSize, parserCalls, extraction,
                 summary, extractedText, maxQuestions, warned, requests,
                 summaryRequests, generatedContent, chunks, parsed, toolResult,
                 stepResult, stages, caught, toolThrew,
                 summaryResponse, fragments, parserVars>>

\* response.arrayBuffer() rejects
ArrayBufferReject(reason) ==
  /\ pc = "arrayBuffer"
  /\ Step1Throws(messageOf(reason))
  /\ UNCHANGED <<entry, copy, step2, pdfUrl, fileSize, parserCalls, extraction,
                 summary, extractedText, maxQuestions, warned, requests,
                 summaryRequests, generatedContent, chunks, parsed, toolResult,
                 stepResult, stages, caught, toolThrew,
                 fetched, summaryResponse,
                 fragments, parserVars>>

\* A faulty extractTextFromPDF that makes the parser before it looks at the
\* buffer: C12 must tell it from ArrayBufferResolve
ArrayBufferResolve_parserFirst(length) ==
  /\ pc = "arrayBuffer"
  /\ fileSize' = length
  /\ stages' = Append(stages, "extract")
  /\ parserCalls' = parserCalls + 1
  /\ IF length = 0
       THEN Step1Throws(EmptyBufferMessage)
       ELSE pc' = "parse" /\ UNCHANGED <<step1, error>>
  /\ UNCHANGED <<entry, copy, step2, pdfUrl, extraction, summary,
                 extractedText, maxQuestions, warned, requests,
                 summaryRequests, generatedContent, chunks, parsed, toolResult,
                 stepResult, caught, toolThrew, fetched, summaryResponse,
                 fragments, parserVars>>

\* response.arrayBuffer() resolves with length bytes: extractTextFromPDF
\* throws on an empty buffer, else makes a parser and calls parseBuffer
ArrayBufferResolve(length) ==
  /\ pc = "arrayBuffer"
  /\ fileSize' = length
  /\ stages' = Append(stages, "extract")
  /\ IF length = 0
       THEN Step1Throws(EmptyBufferMessage) /\ UNCHANGED parserCalls
       ELSE /\ parserCalls' = parserCalls + 1
            /\ pc' = "parse"
            /\ UNCHANGED <<step1, error>>
  /\ UNCHANGED <<entry, copy, step2, pdfUrl, extraction, summary,
                 extractedText, maxQuestions, warned, requests,
                 summaryRequests, generatedContent, chunks, parsed, toolResult,
                 stepResult, caught, toolThrew,
                 fetched, summaryResponse,
                 fragments, parserVars>>

\* The parser reports an error: the promise rejects
ParserDataError(err) ==
  /\ pc = "parse"
  /\ Step1Throws(dataError(err))
  /\ UNCHANGED <<entry, copy, step2, pdfUrl, fileSize, parserCalls, extraction,
                 summary, extractedText, maxQuestions, warned, requests,
                 summaryRequests, generatedContent, chunks, parsed, toolResult,
                 stepResult, stages, caught, toolThrew,
                 fetched, summaryResponse,
                 fragments, parserVars>>

\* The parser reports the document: the promise settles; on a text the
\* summarization agent is looked up (agentFound) and asked for the summary
ParserDataReady(pdfData, agentFound) ==
  /\ pc = "parse"
  /\ LET r == dataReady(pdfData)
         blank == r.extractedText = <<>> \/ trim(r.extractedText) = <<>>
     IN IF ~r.resolved THEN
          Step1Throws(r.message) /\ UNCHANGED <<extraction, summaryRequests, stages>>
        ELSE
          /\ extraction' = <<[extractedText |-> r.extractedText,
                              pagesCount |-> r.pagesCount]>>
          /\ IF blank THEN
               Step1Throws(NoTextMessage) /\ UNCHANGED <<summaryRequests, stages>>
             ELSE IF ~agentFound THEN
               Step1Throws(NoSummaryAgentMessage) /\ UNCHANGED <<summaryRequests, stages>>
             ELSE
               /\ summaryRequests' = Append(summaryRequests, [text |-> r.extractedText])
               /\ stages' = Append(stages, "summarize")
               /\ pc' = "generate"
               /\ UNCHANGED <<step1, error>>
  /\ UNCHANGED <<entry, copy, step2, pdfUrl, fileSize, parserCalls, summary,
                 extractedText, maxQuestions, warned, requests,
                 generatedContent, chunks, parsed, toolResult, stepResult,
                 caught, toolThrew,
                 fetched, summaryResponse,
                 fragments, parserVars>>

\* pdfSummarizationAgent.generate rejects
GenerateReject(reason) ==
  /\ pc = "generate"
  /\ Step1Throws(messageOf(reason))
  /\ UNCHANGED <<entry, copy, step2, pdfUrl, fileSize, parserCalls, extraction,
                 summary, extractedText, maxQuestions, warned, requests,
                 summaryRequests, generatedContent, chunks, parsed, toolResult,
                 stepResult, stages, caught, toolThrew,
                 fetched, summaryResponse,
                 fragments, parserVars>>

\* A faulty summaryOf without the placeholder: C19 must tell it from summaryOf
summaryOf_asIs(text) == text

\* A faulty summaryOf that trims the response: C14 must tell it from summaryOf
summaryOf_trimmed(text) ==
  IF text = <<>> THEN SummaryPlaceholder ELSE trim(text)

\* summaryResult.text || 'Summary could not be generated'
summaryOf(text) == IF text = <<>> THEN SummaryPlaceholder ELSE text

\* pdfSummarizationAgent.generate resolves: execute returns and step 1 succeeds
GenerateResolve(text) ==
  /\ pc = "generate"
  /\ summary' = summaryOf(text)
  /\ step1' = "success"
  /\ pc' = "step2"
  /\ summaryResponse' = <<text>>
  /\ UNCHANGED <<entry, copy, step2, pdfUrl, fileSize, parserCalls, extraction,
                 error, extractedText, maxQuestions, warned, requests,
                 summaryRequests, generatedContent, chunks, parsed, toolResult,
                 stepResult, stages, caught, toolThrew,
                 fetched,
                 fragments, parserVars>>

----------------------------------------------------------------------------
(* Step 2, generate-questions-from-summary, and                            *)
(* generateQuestionsFromTextTool.execute.                                  *)

\* !extractedText || extractedText.trim() === ''
isBlank(text) == text = <<>> \/ trim(text) = <<>>

\* A faulty promptText that sends the whole text: C7 must tell it from
\* promptText
promptText_untruncated(text) == text

\* The text execute embeds in the prompt
promptText(text) == substring(text, MAX_TEXT_LENGTH)

\* What a call of execute ends with: a returned value, or a thrown error
returns(value) == [returned |-> TRUE, value |-> value]

\* A faulty catch block that throws the error again: C8 must tell it from
\* toolCatch
toolCatch_rethrows(errorMessage) == [returned |-> FALSE, value |-> FailureResult]

\* The catch block of execute: it logs the message and returns the failure
\* result, whatever was thrown
toolCatch(errorMessage) == [returned |-> TRUE, value |-> FailureResult]

\* The value step 2 returns when the tool throws (the step's catch block)
StepFailureValue == [questions |-> <<>>, success |-> FALSE]

\* execute ends with outcome; in the workflow step 2 ends with it
ToolSettles(outcome) ==
  /\ toolThrew' = ~outcome.returned
  /\ toolResult' = IF outcome.returned THEN <<outcome.value>> ELSE <<>>
  /\ stepResult' = IF entry # "workflow" THEN <<>>
                   ELSE IF outcome.returned THEN <<stepValue(outcome.value)>>
                   ELSE <<StepFailureValue>>
  /\ step2' = IF entry = "workflow" THEN "success" ELSE step2
  /\ pc' = "done"

\* An error is thrown inside the try block of execute
ToolCatches(errorMessage) ==
  /\ caught' = errorMessage
  /\ ToolSettles(toolCatch(errorMessage))

NoQuestionAgentMessage == <<"Question generator agent not found">>

\* execute from its call to its first await, for the copy c of the tool: a
\* blank text returns the failure result, a missing agent is thrown and
\* caught, else the request goes out and execute awaits agent.stream
ToolBegins(c, text, max, agentFound) ==
  /\ copy' = c
  /\ extractedText' = text
  /\ maxQuestions' = max
  /\ warned' = (~isBlank(text) /\ Len(text) > MAX_TEXT_LENGTH)
  /\ IF isBlank(text) THEN
       /\ ToolSettles(returns(FailureResult))
       /\ UNCHANGED <<caught, requests, stages>>
     ELSE IF ~agentFound THEN
       /\ ToolCatches(NoQuestionAgentMessage)
       /\ UNCHANGED <<requests, stages>>
     ELSE
       /\ requests' = Append(requests, [maxQuestions |-> max, text |-> promptText(text)])
       /\ stages' = Append(stages, "generate")
       /\ pc' = "stream"
       /\ step2' = IF entry = "workflow" THEN "running" ELSE step2
       /\ UNCHANGED <<caught, toolThrew, toolResult, stepResult>>

\* The tool is called on its own, with any text and maxQuestions
ToolExecuteDirect(c, text, max, agentFound) ==
  /\ entry = "none"
  /\ entry' = "direct"
  /\ ToolBegins(c, text, max, agentFound)
  /\ UNCHANGED <<step1, pdfUrl, fileSize, parserCalls, extraction, summary,
                 error, summaryRequests, generatedContent, chunks, parsed,
                 fetched, summaryResponse,
                 fragments, parserVars>>

\* Step 2 runs after step 1 succeeded: without a summary it returns the
\* failure value, else it calls the tool the workflow imports
Step2Execute(agentFound) ==
  /\ entry = "workflow"
  /\ pc = "step2"
  /\ step1 = "success"
  /\ IF summary = <<>> THEN
       /\ step2' = "success"
       /\ stepResult' = <<StepFailureValue>>
       /\ pc' = "done"
       /\ UNCHANGED <<copy, extractedText, maxQuestions, warned, requests,
                      stages, toolResult, caught, toolThrew>>
     ELSE
       ToolBegins("tool", summary, DefaultMaxQuestions, agentFound)
  /\ UNCHANGED <<entry, step1, pdfUrl, fileSize, parserCalls, extraction,
                 summary, error, summaryRequests, generatedContent, chunks,
                 parsed, fetched, summaryResponse,
                 fragments, parserVars>>

\* agent.stream rejects: the rejection is thrown at the await and caught
StreamReject(reason) ==
  /\ pc = "stream"
  /\ ToolCatches(messageOf(reason))
  /\ UNCHANGED <<entry, copy, step1, pdfUrl, fileSize, parserCalls, extraction,
                 summary, error, extractedText, maxQuestions, warned, requests,
                 summaryRequests, generatedContent, chunks, parsed, stages,
                 fetched, summaryResponse,
                 fragments, parserVars>>

\* agent.stream resolves: the loop over textStream starts with an empty buffer
StreamResolve ==
  /\ pc = "stream"
  /\ pc' = "textStream"
  /\ generatedContent' = <<>>
  /\ UNCHANGED <<entry, copy, step1, step2, pdfUrl, fileSize, parserCalls,
                 extraction, summary, error, extractedText, maxQuestions,
                 warned, requests, summaryRequests, chunks, parsed, toolResult,
                 stepResult, stages, caught, toolThrew, fetched, summaryResponse,
                 fragments, parserVars>>

\* A faulty loop that puts the fragment in front of the buffer: C15 must tell
\* it from TextStreamChunk
TextStreamChunk_prepends(chunk) ==
  /\ pc = "textStream"
  /\ chunks < MaxChunks
  /\ generatedContent' = orEmpty(chunk) \o generatedContent
  /\ chunks' = chunks + 1
  /\ fragments' = Append(fragments, chunk)
  /\ UNCHANGED <<entry, copy, pc, step1, step2, pdfUrl, fileSize, parserCalls,
                 extraction, summary, error, extractedText, maxQuestions,
                 warned, requests, summaryRequests, parsed, toolResult,
                 stepResult, stages, caught, toolThrew, fetched,
                 summaryResponse, parserVars>>

\* The stream delivers a fragment: generatedContent += chunk || ''
TextStreamChunk(chunk) ==
  /\ pc = "textStream"
  /\ chunks < MaxChunks
  /\ generatedContent' = generatedContent \o orEmpty(chunk)
  /\ chunks' = chunks + 1
  /\ fragments' = Append(fragments, chunk)
  /\ UNCHANGED <<entry, copy, pc, step1, step2, pdfUrl, fileSize, parserCalls,
                 extraction, summary, error, extractedText, maxQuestions,
                 warned, requests, summaryRequests, parsed, toolResult,
                 stepResult, stages, caught, toolThrew, fetched,
                 summaryResponse, parserVars>>

\* The stream fails: the error is thrown in the loop and caught
TextStreamFail(reason) ==
  /\ pc = "textStream"
  /\ ToolCatches(messageOf(reason))
  /\ UNCHANGED <<entry, copy, step1, pdfUrl, fileSize, parserCalls, extraction,
                 summary, error, extractedText, maxQuestions, warned, requests,
                 summaryRequests, generatedContent, chunks, parsed, stages,
                 fetched, summaryResponse,
                 fragments, parserVars>>

\* A faulty resultOf that reports the parsed questions as a failure: C6 must
\* tell it from resultOf
resultOf_failureWithQuestions(c, content, max) ==
  LET questions == parseQuestionsFromText(c, content, max)
  IN [questions |-> questions, questionCount |-> Len(questions),
      success |-> FALSE]

\* A faulty resultOf that parses a content of MinContentLength characters and
\* measures it untrimmed: C16 must tell it from resultOf
resultOf_atLeastUntrimmed(c, content, max) ==
  IF Len(content) >= MinContentLength
    THEN LET questions == parseQuestionsFromText(c, content, max)
         IN [questions |-> questions, questionCount |-> Len(questions),
             success |-> TRUE]
    ELSE FailureResult

\* The value execute returns once the stream is drained
resultOf(c, content, max) ==
  IF Len(trim(content)) > MinContentLength
    THEN LET questions == parseQuestionsFromText(c, content, max)
         IN [questions |-> questions, questionCount |-> Len(questions),
             success |-> TRUE]
    ELSE FailureResult

\* The stream ends: a content long enough is parsed, else the failure result
TextStreamEnd ==
  /\ pc = "textStream"
  /\ LET long == Len(trim(generatedContent)) > MinContentLength
     IN /\ parsed' = IF long
                       THEN Append(parsed, [text |-> generatedContent,
                                            maxQuestions |-> maxQuestions])
                       ELSE parsed
        /\ stages' = IF long THEN Append(stages, "parse") ELSE stages
  /\ ToolSettles(returns(resultOf(copy, generatedContent, maxQuestions)))
  /\ UNCHANGED <<entry, copy, step1, pdfUrl, fileSize, parserCalls, extraction,
                 summary, error, extractedText, maxQuestions, warned, requests,
                 summaryRequests, generatedContent, chunks, caught, fetched, summaryResponse,
                 fragments, parserVars>>

----------------------------------------------------------------------------
(* The specifications.                                                     *)

Init == PipelineInit /\ ParserIdle

Next ==
  \/ WorkflowStart
  \/ \E reason \in Rejections : FetchReject(reason)
  \/ \E response \in Responses : FetchResolve(response)
  \/ \E reason \in Rejections : ArrayBufferReject(reason)
  \/ \E length \in BodyLengths : ArrayBufferResolve(length)
  \/ \E err \in ParserErrors : ParserDataError(err)
  \/ \E pdfData \in PdfDatas, agentFound \in BOOLEAN :
       ParserDataReady(pdfData, agentFound)
  \/ \E reason \in Rejections : GenerateReject(reason)
  \/ \E text \in SummaryTexts : GenerateResolve(text)
  \/ \E agentFound \in BOOLEAN : Step2Execute(agentFound)
  \/ \E c \in Copies, text \in SummaryTexts, max \in MaxQuestionsValues,
        agentFound \in BOOLEAN : ToolExecuteDirect(c, text, max, agentFound)
  \/ \E reason \in Rejections : StreamReject(reason)
  \/ StreamResolve
  \/ \E chunk \in Fragments : TextStreamChunk(chunk)
  \/ \E reason \in Rejections : TextStreamFail(reason)
  \/ TextStreamEnd

\* One run of the workflow, or of the tool on its own
Spec == Init /\ [][Next]_vars

\* A run in which every call that is awaited settles and the stream ends:
\* each await of the run is the only thing the run waits for, so a step that
\* stays possible is taken
FairSpec == Spec /\ WF_vars(Next)

ParserNext == \E c \in Copies : ParseCall(c)

ParserStart == ParserInit /\ PipelineIdle

\* parseQuestionsFromText applied to one raw completion
ParserSpec == ParserStart /\ [][ParserNext]_vars

----------------------------------------------------------------------------
(* Claims about parseQuestionsFromText, checked under ParserSpec.          *)

called == pCopy # "none"

EndsWithQuestionMark(q) == q # <<>> /\ q[Len(q)] = "?"

IsPrefix(a, b) == Len(a) <= Len(b) /\ a = SubSeq(b, 1, Len(a))

\* C1: for maxQuestions = k >= 0 the parser returns at most k elements, the
\* first min(k, n) of the n segments that survive cleaning and filtering, in
\* their order; parse(text, k) is a prefix of parse(text, k + 1).
C1_BoundedPrefix ==
  (called /\ pMax >= 0) =>
    LET all == survivors(pCopy, pText)
    IN /\ Len(pOut) <= pMax
       /\ Len(pOut) = Min(pMax, Len(all))
       /\ \A i \in 1..Len(pOut) : pOut[i] = all[i]
       /\ IsPrefix(pOut, parseQuestionsFromText(pCopy, pText, pMax + 1))

\* C1 witness: three segments survive and the list is cut to two
C1_Witness ==
  /\ called
  /\ pMax = 2
  /\ Len(survivors(pCopy, pText)) = 3
  /\ Len(pOut) = 2

\* C2: every element returned ends with '?' and is longer than 5 characters
\* after trimming.
C2_WellFormed ==
  called =>
    \A i \in 1..Len(pOut) :
      EndsWithQuestionMark(pOut[i]) /\ Len(trim(pOut[i])) > MinQuestionLength

\* C2, for the copy in part_002 alone
C2_WellFormed_part_002 == (pCopy = "part_002") => C2_WellFormed

\* The list of one numbered question per item on one physical line
NumberedOnOneLine ==
  /\ pInput.style.kind = "numbered"
  /\ pInput.style.ws = <<" ">>
  /\ pInput.sep = <<" ">>
  /\ Len(pInput.bodies) >= 1
  /\ \A i \in 1..Len(pInput.bodies) : pInput.bodies[i] \in PlainQuestions

\* C3: several numbered questions on one physical line come back one element
\* per question, in order, the numbering removed.
C3_OnePerNumberedQuestion ==
  (called /\ NumberedOnOneLine /\ pMax >= Len(pInput.bodies)) =>
    pOut = pInput.bodies

\* C3, for the copy in part_002 alone
C3_OnePerNumberedQuestion_part_002 ==
  (pCopy = "part_002") => C3_OnePerNumberedQuestion

\* C4: a text without any '?' yields the empty list, for every maxQuestions.
C4_NoQuestionMarkNoQuestions ==
  (called /\ ~includes(pText, "?")) => pOut = <<>>

\* One line: one bullet or numbered marker and one plain question
OneMarkedQuestion ==
  /\ pInput.style.kind \in {"numbered", "bullet"}
  /\ Len(pInput.bodies) = 1
  /\ pInput.bodies[1] \in PlainQuestions

\* C10: a line of one marker, optional whitespace and a plain question Q
\* yields exactly [Q] (for a maxQuestions of at least 1).
C10_MarkerStripped ==
  (called /\ OneMarkedQuestion /\ pMax >= 1) => pOut = <<pInput.bodies[1]>>

\* C10 witness: "9) Why does this matter?" parsed by the workflow's copy
C10_Witness ==
  /\ pCopy = "tool"
  /\ pInput.style = [kind |-> "numbered", mark |-> ")", ws |-> <<" ">>, start |-> 9]
  /\ pInput.bodies = <<WhyMatter>>
  /\ pMax = DefaultMaxQuestions
  /\ pOut = <<WhyMatter>>

----------------------------------------------------------------------------
(* Claims about the tool and the workflow, checked under Spec.             *)

\* The values returned so far: by execute, and by step 2
Returned ==
  {toolResult[i] : i \in 1..Len(toolResult)}
    \cup {[questions |-> stepResult[i].questions,
           questionCount |-> Len(stepResult[i].questions),
           success |-> stepResult[i].success] : i \in 1..Len(stepResult)}

\* C5: an empty question list is always reported as failure: success = true
\* implies a non-empty list, in every result of execute and of step 2.
C5_SuccessImpliesQuestions ==
  \A r \in Returned : r.success => r.questions # <<>>

\* C6: success = false implies an empty question list, in every result of
\* execute and of step 2, on every path.
C6_FailureImpliesEmpty ==
  \A r \in Returned : ~r.success => r.questions = <<>>

\* C6 witness: the workflow's step 2 reports failure after the stream
\* delivered a text too short to parse
C6_Witness ==
  /\ entry = "workflow"
  /\ pc = "done"
  /\ caught = <<>>
  /\ generatedContent # <<>>
  /\ stepResult = <<StepFailureValue>>

\* C7: the text in every request to the question agent is exactly the first
\* min(length, 4000) characters of the input text.
C7_PromptIsTruncatedPrefix ==
  \A i \in 1..Len(requests) :
    /\ Len(requests[i].text) = Min(Len(extractedText), MAX_TEXT_LENGTH)
    /\ requests[i].text = SubSeq(extractedText, 1, Len(requests[i].text))

\* C7 witness: a text longer than 4000 characters went out cut to 4000
C7_Witness ==
  /\ Len(requests) = 1
  /\ warned
  /\ Len(extractedText) = MAX_TEXT_LENGTH + Overshoot
  /\ Len(requests[1].text) = MAX_TEXT_LENGTH

\* C8: the question-generation stage never propagates a failure: execute
\* never throws, and once its catch block ran it returned the failure result
\* and, in the workflow, step 2 returned {questions: [], success: false}.
C8_FailureAbsorbed ==
  /\ ~toolThrew
  /\ caught # <<>> =>
       /\ toolResult = <<FailureResult>>
       /\ entry = "workflow" => (step2 = "success" /\ stepResult = <<StepFailureValue>>)

\* C8 witness: in the workflow the stream failed after delivering fragments
C8_Witness ==
  /\ entry = "workflow"
  /\ caught # <<>>
  /\ chunks = MaxChunks
  /\ generatedContent # <<>>
  /\ stepResult = <<StepFailureValue>>

\* C9: once download, extraction or summarization failed, step 1 has failed
\* with the thrown error, step 2 is not started, the question agent is not
\* called and no result exists.
C9_Step1FailureAborts ==
  error # <<>> =>
    /\ step1 = "failed"
    /\ pc = "done"
    /\ step2 = "notStarted"
    /\ requests = <<>>
    /\ toolResult = <<>>
    /\ stepResult = <<>>

\* C9 witness: the summarization call failed after a successful extraction
C9_Witness ==
  /\ step1 = "failed"
  /\ extraction # <<>>
  /\ summaryRequests # <<>>
  /\ error # <<>>

\* The number of positions of list that hold q
occurrences(q, list) == Cardinality({i \in 1..Len(list) : list[i] = q})

\* Every item is a question of its own line of the completion
QuestionPerLine ==
  /\ pInput.sep = <<NL>>
  /\ \A i \in 1..Len(pInput.bodies) : pInput.bodies[i] \in PlainQuestions

\* C11: the parser removes no duplicate: a question written on m lines of the
\* completion is m times in the list returned, up to the cut at maxQuestions.
C11_NoDeduplication ==
  (called /\ pMax >= 0 /\ QuestionPerLine) =>
    LET kept == SubSeq(pInput.bodies, 1, Min(pMax, Len(pInput.bodies)))
    IN \A q \in PlainQuestions : occurrences(q, pOut) = occurrences(q, kept)

\* C11 witness: the same question on three lines is returned three times
C11_Witness ==
  /\ called
  /\ QuestionPerLine
  /\ Len(pInput.bodies) = 3
  /\ \A i \in 1..3 : pInput.bodies[i] = WhatIsX
  /\ pOut = <<WhatIsX, WhatIsX, WhatIsX>>

\* The body of the response was read and handed to extractTextFromPDF
Extracting == Len(stages) >= 2 /\ stages[2] = "extract"

\* C12: extractTextFromPDF called with an empty buffer fails with 'Invalid PDF
\* file: empty buffer' and no PDFParser is made, so parseBuffer is not called.
C12_EmptyBufferNoParser ==
  (Extracting /\ fileSize = 0) =>
    /\ parserCalls = 0
    /\ extraction = <<>>
    /\ step1 = "failed"
    /\ error = <<"Failed to process PDF from URL: ",
                 "Invalid PDF file: empty buffer">>

\* C12 witness: a download of zero bytes reached the extractor
C12_Witness ==
  /\ Extracting
  /\ fileSize = 0
  /\ fetched # <<>>
  /\ fetched[1].ok
  /\ pc = "done"

\* The fetch of pdfUrl rejected, or resolved with a response that is not ok
DownloadFailed == fetched # <<>> /\ ~(fetched[1].resolved /\ fetched[1].ok)

\* The message of the error step 1 threw holds the value
Names(value) == \E i \in 1..Len(error) : error[i] = value

\* The fetch was called once
FetchedOnce == Cardinality({i \in 1..Len(stages) : stages[i] = "download"}) = 1

C14_SummaryVerbatim ==
  step1 = "success" => summary = summaryResponse[1]

\* C14 amended: a response text that is not empty is the summary as it is,
\* untrimmed and uncut; an empty response text is replaced by 'Summary could
\* not be generated'.  Step 2 hands that summary to the question tool.
C14_SummaryVerbatimUnlessEmpty ==
  step1 = "success" =>
    /\ summaryResponse # <<>>
    /\ summaryResponse[1] # <<>> => summary = summaryResponse[1]
    /\ summaryResponse[1] = <<>> => summary = SummaryPlaceholder
    /\ (entry = "workflow" /\ step2 # "notStarted") => extractedText = summary

\* C14 witness: a response of white space only came back and was handed to
\* the question tool as it was
C14_Witness ==
  /\ step1 = "success"
  /\ summaryResponse = << <<" ", NL>> >>
  /\ summary = <<" ", NL>>
  /\ step2 # "notStarted"
  /\ extractedText = <<" ", NL>>

\* The fragments delivered so far, one after the other
arrived == flat([i \in 1..Len(fragments) |-> orEmpty(fragments[i])])

\* The stream ended without an error and execute went on
Drained == requests # <<>> /\ pc = "done" /\ caught = <<>>

\* C15: the buffer is the fragments in their order of arrival; the parser is
\* called at most once, on the whole buffer of a stream that ended without an
\* error, and not at all when the stream failed.
C15_WholeStreamOnce ==
  /\ generatedContent = arrived
  /\ Len(parsed) <= 1
  /\ parsed # <<>> => (Drained /\ parsed[1].text = arrived)
  /\ caught # <<>> => parsed = <<>>

\* C15 witness: two different fragments arrived and their concatenation was
\* parsed
C15_Witness ==
  /\ Len(fragments) = 2
  /\ fragments[1].text = <<NL>> \o OkShort
  /\ fragments[2].text = TwoOnOneLine
  /\ parsed # <<>>
  /\ parsed[1].text = <<NL>> \o OkShort \o TwoOnOneLine

\* C16: the parser is called only on a completion of more than 20 characters
\* after trimming; for a drained stream of 20 characters or fewer after
\* trimming (exactly 20, the empty stream) it is not called and execute
\* returns {questions: [], questionCount: 0, success: false}.
C16_ParsedOnlyWhenLong ==
  /\ \A i \in 1..Len(parsed) : Len(trim(parsed[i].text)) > 20
  /\ (Drained /\ Len(trim(generatedContent)) <= 20) =>
       /\ parsed = <<>>
       /\ toolResult = <<[questions |-> <<>>, questionCount |-> 0,
                          success |-> FALSE]>>

\* C16 witness: the stream delivered 22 characters, 20 of them between white
\* space, and nothing was parsed
C16_Witness ==
  /\ Drained
  /\ Len(generatedContent) = 22
  /\ Len(trim(generatedContent)) = 20
  /\ parsed = <<>>
  /\ toolResult = <<FailureResult>>

\* C17: the copy of parseQuestionsFromText in generate-questions-from-text-
\* tool.ts and the copy in part_002 return the same list for the same
\* completion and the same maxQuestions.
C17_CopiesAgree ==
  called =>
    parseQuestionsFromText_tool(pText, pMax)
      = parseQuestionsFromText_part_002(pText, pMax)

\* C18: the question agent is never asked about a blank text: the text of
\* every request, the first 4000 characters of the source text, holds a
\* character that is not white space, and a source text whose first 4000
\* characters are blank returns the failure result without a request.
C18_PromptNeverBlank ==
  /\ \A i \in 1..Len(requests) : trim(requests[i].text) # <<>>
  /\ (toolResult # <<>> /\ trim(SubSeq(extractedText, 1, Min(Len(extractedText), 4000))) = <<>>)
       => (requests = <<>> /\ toolResult = <<FailureResult>>)

\* Step 2 ran past its test of the summary
Step2Decided == entry = "workflow" /\ step1 = "success" /\ pc # "step2"

\* C19: whenever step 1 succeeded the summary handed to step 2 is not the
\* empty string, so step 2 never returns by its 'Missing summary' branch: it
\* calls the question tool with the summary and returns what the tool gave.
C19_SummaryNeverMissing ==
  /\ step1 = "success" => summary # <<>>
  /\ Step2Decided =>
       /\ extractedText = summary
       /\ pc = "done" => (toolResult # <<>> /\ stepResult = <<stepValue(toolResult[1])>>)

\* C19 witness: the summarization response was empty, and the tool was called
\* with the placeholder
C19_Witness ==
  /\ Step2Decided
  /\ summaryResponse = << <<>> >>
  /\ summary = SummaryPlaceholder
  /\ extractedText = SummaryPlaceholder
  /\ requests # <<>>
  /\ pc = "done"

\* The stages of a workflow run, in the order of the code
StageOrder == <<"download", "extract", "summarize", "generate", "parse">>

\* The stages begun are the first ones of StageOrder, each once, and each
\* began after the one before it had delivered its value
StagesInOrder ==
  entry = "workflow" =>
    /\ Len(stages) <= Len(StageOrder)
    /\ stages = SubSeq(StageOrder, 1, Len(stages))
    /\ Len(stages) >= 2 => (fetched # <<>> /\ fetched[1].resolved /\ fetched[1].ok)
    /\ Len(stages) >= 3 => (extraction # <<>> /\ parserCalls = 1)
    /\ Len(stages) >= 4 => (step1 = "success" /\ summaryResponse # <<>>)
    /\ Len(stages) >= 5 => (Drained /\ parsed # <<>>)

\* The run is over: step 1 threw, or step 2 returned {questions, success}
Terminated ==
  /\ pc = "done"
  /\ \/ step1 = "failed" /\ error # <<>> /\ stepResult = <<>>
     \/ step1 = "success" /\ error = <<>> /\ Len(stepResult) = 1
          /\ stepResult[1].success \in BOOLEAN
          /\ stepResult[1].questions \in Seq(Seq(STRING))

\* C20: when every awaited call settles and the stream ends, a workflow run
\* goes through download, extract, summarize, generate and parse in that
\* order, no stage before the one before it is complete and none twice, and
\* ends with {questions, success} or with the error thrown by step 1.
C20_OrderedAndTerminating ==
  /\ []StagesInOrder
  /\ (entry = "workflow") ~> Terminated

\* C20 witness: a run went through the five stages and returned its result
C20_Witness ==
  /\ entry = "workflow"
  /\ stages = StageOrder
  /\ Terminated
  /\ stepResult # <<>>

====
